---- MODULE Spec2Model ----
(***************************************************************************)
(* A model of ControlFlow's scheduling core: the Task status machine and   *)
(* dependency graph (controlflow/tasks/task.py) and the Orchestrator's     *)
(* views and turn loop (controlflow/orchestration/orchestrator.py).        *)
(***************************************************************************)
EXTENDS Integers, Sequences, FiniteSets, TLC

\* ---------------------------------------------------------------- bounds
\* the number of Task objects
NTasks == 3
\* the number of members of all depends_on sets together
MaxDeps == 2

\* Python's None where a Task is expected (Task.parent defaults to None).
NoTask == 0

Tasks == 1..NTasks

\* ------------------------------------------------------ TaskStatus (enum)
PENDING == "PENDING"
RUNNING == "RUNNING"
SUCCESSFUL == "SUCCESSFUL"
FAILED == "FAILED"
SKIPPED == "SKIPPED"

INCOMPLETE_STATUSES == {PENDING, RUNNING}
COMPLETE_STATUSES == {SUCCESSFUL, FAILED, SKIPPED}

\* ---------------------------------------------------------- Python values
\* None, the ints 0, 1 and 7 and the strings "A", "B" and "Z": the values a
\* caller or a tool call can pass as a result.
None == "None"
IntValues == {"i0", "i1", "i7"}
StrValues == {"A", "B", "Z"}

\* result_type: None, the type str (the field's default), or a tuple of options.
RT_None == "rt_none"
RT_Str == "rt_str"
RT_Options == "rt_options"
\* the option tuple of a task whose result_type is a tuple
OptionTuple == <<"A", "Z">>

\* result_validator: None, or a callable; the callables of the model are one that
\* returns its argument and one that raises on the string "Z".
NoValidator == "no_validator"
ValidatorIdentity == "validator_identity"
ValidatorRejectsZ == "validator_rejects_Z"

\* two distinct model classes that have the same name: both may be a result_type
RT_ModelA == "rt_model_a"
RT_ModelB == "rt_model_b"

\* Task.context: the empty dict, and two dicts that hold different objects with
\* the same repr
EmptyContext == "ctx_empty"
ContextObjectA == "ctx_object_a"
ContextObjectB == "ctx_object_b"

VARIABLES
    \* the Task objects
    ntasks,            \* how many Task objects have been constructed: 1..ntasks
    status,            \* Task.status
    parent,            \* Task.parent (NoTask for None)
    depends_on,        \* Task.depends_on
    subtasks,          \* Task._subtasks
    downstreams,       \* Task._downstreams
    result,            \* Task.result
    result_type,       \* Task.result_type
    result_validator,  \* Task.result_validator
    agents,            \* Task.agents: a non-empty list of agents, or <<>> for None
    objective,         \* Task.objective
    created_at,        \* Task.created_at
    name,              \* Task.name
    instructions,      \* Task.instructions
    prompt,            \* Task.prompt
    context,           \* Task.context
    id,                \* Task.id
    err,               \* the error the last call raised (NoError if it returned)
    \* the Orchestrator, its flow and its turn strategy
    pc,                \* where the Orchestrator is in run()
    orch_tasks,        \* Orchestrator.tasks
    orch_agent,        \* Orchestrator.agent
    flow_agent,        \* Flow.agent of the current flow (None if it has none)
    controller,        \* the legacy Controller constructed last, if any
    legacy_tasks,      \* the Task objects of control_flow.core.task, in the order made
    controller_run,    \* the run_async() call of that Controller: where it is,
                       \* the agent selected, how it returned
    emitted,           \* the session events handed to handle_event, in order
    loop_exc,          \* what the turn loop of run() raised (None if nothing)
    exc,               \* the exception that left run() (None if it returned)
    end_turn,          \* turn strategy: the turn is to end
    end_session,       \* turn strategy: the session is to end
    next_agent,        \* turn strategy: the agent the turn was passed to
    calls,             \* turn strategy: agent invocations in the current turn
    last_event,        \* the event last given to handle_event, its persist flag, and
                       \* the handler that raised on it (0 if none did)
    delivered,         \* the handlers that event was passed to, in the order of the calls
    persisted,         \* whether that event was added to the flow's events
    to_yield,          \* how many events the agent invocation in progress has yet to yield
    invoking,          \* how many agent invocations are in progress
    turn_exit          \* how run_turn() left its loop the last time (None before)

\* the fields of a Task that no operation of the model changes after construction
fixedFields == <<ntasks, result_type, result_validator, agents, objective, created_at,
                 name, instructions, prompt, context, id>>
taskVars == <<ntasks, status, parent, depends_on, subtasks, downstreams, result,
              result_type, result_validator, agents, objective, created_at,
              name, instructions, prompt, context, id>>
strategyVars == <<end_turn, end_session, next_agent, calls>>
handlerVars == <<last_event, delivered, persisted>>
stepVars == <<to_yield, invoking, turn_exit>>
orchVars == <<pc, orch_tasks, orch_agent, flow_agent, controller, legacy_tasks, controller_run, emitted, loop_exc, exc,
              end_turn, end_session, next_agent, calls,
              last_event, delivered, persisted, to_yield, invoking, turn_exit>>
vars == <<ntasks, status, parent, depends_on, subtasks, downstreams, result,
          result_type, result_validator, agents, objective, created_at,
          name, instructions, prompt, context, id, err,
          pc, orch_tasks, orch_agent, flow_agent, controller, legacy_tasks, controller_run, emitted, loop_exc, exc,
          end_turn, end_session, next_agent, calls,
          last_event, delivered, persisted, to_yield, invoking, turn_exit>>

\* the outcome of a call that returned normally
NoError == "ok"
UpstreamError == "ValueError: upstream dependencies are not completed"
SubtaskError == "ValueError: subtasks are not completed"
ParentError == "ValueError: already has a parent"
ResultTypeNoneError == "ValueError: result_type=None, but a result was provided"
NotAnOptionError == "ValueError: result is not in the list of valid result types"
ValidationError == "ValidationError"
ValidatorError == "ValueError: result_validator"
AlreadySuccessfulError == "ValueError: already marked successful"
InvalidOptionError == "ValueError: invalid option"

\* ------------------------------------------------------- status predicates
is_incomplete(t) == status[t] \in INCOMPLETE_STATUSES

is_complete(t) == status[t] \in COMPLETE_STATUSES

is_successful(t) == status[t] = SUCCESSFUL

\* is_ready as it would be if every dependency had to be SUCCESSFUL
is_ready_deps_successful(t) ==
    is_incomplete(t) /\ \A d \in depends_on[t] : is_successful(d)

\* is_ready as it would be if it did not ask whether the task is incomplete
is_ready_ignoring_status(t) == \A d \in depends_on[t] : is_complete(d)

is_ready(t) ==
    is_incomplete(t) /\ \A d \in depends_on[t] : is_complete(d)

\* ------------------------------------------------------ graph construction
\* add_subtask as it would be if it took over a task that has another parent
add_subtask_reparenting(p, c) ==
    /\ parent' = [parent EXCEPT ![c] = p]
    /\ subtasks' = [subtasks EXCEPT ![p] = @ \cup {c}]
    /\ depends_on' = [depends_on EXCEPT ![p] = @ \cup {c}]
    /\ UNCHANGED <<status, downstreams, result>> /\ UNCHANGED fixedFields
    /\ err' = NoError

\* add_subtask as it would be if a subtask were not made a dependency
add_subtask_without_dependency(p, c) ==
    IF parent[c] # NoTask /\ parent[c] # p
    THEN err' = ParentError /\ UNCHANGED taskVars
    ELSE /\ parent' = [parent EXCEPT ![c] = p]
         /\ subtasks' = [subtasks EXCEPT ![p] = @ \cup {c}]
         /\ UNCHANGED <<status, depends_on, downstreams, result>>
         /\ UNCHANGED fixedFields
         /\ err' = NoError

add_subtask(p, c) ==
    IF parent[c] # NoTask /\ parent[c] # p
    THEN err' = ParentError /\ UNCHANGED taskVars
    ELSE /\ parent' = [parent EXCEPT ![c] = p]
         /\ subtasks' = [subtasks EXCEPT ![p] = @ \cup {c}]
         /\ depends_on' = [depends_on EXCEPT ![p] = @ \cup {c}]
         /\ UNCHANGED <<status, downstreams, result>> /\ UNCHANGED fixedFields
         /\ err' = NoError

\* add_dependency as it would be if the downstream were not registered
add_dependency_without_downstream(a, b) ==
    /\ depends_on' = [depends_on EXCEPT ![a] = @ \cup {b}]
    /\ UNCHANGED <<status, parent, subtasks, downstreams, result>>
    /\ UNCHANGED fixedFields
    /\ err' = NoError

add_dependency(a, b) ==
    /\ depends_on' = [depends_on EXCEPT ![a] = @ \cup {b}]
    /\ downstreams' = [downstreams EXCEPT ![b] = @ \cup {a}]
    /\ UNCHANGED <<status, parent, subtasks, result>> /\ UNCHANGED fixedFields
    /\ err' = NoError

\* --------------------------------------------------------- result validation
Range(s) == {s[i] : i \in DOMAIN s}

\* pydantic's TypeAdapter(str).validate_python: a str is returned as it is, None
\* and ints are rejected
TypeAdapterStrAccepts(raw) == raw \in StrValues

\* Task.validate_result: the error it raises (NoError if none) and the value it
\* returns
validate_result(t, raw) ==
    LET typed ==
            IF result_type[t] = RT_None /\ raw # None
            THEN ResultTypeNoneError
            ELSE IF result_type[t] = RT_Options
            THEN IF raw \notin Range(OptionTuple) THEN NotAnOptionError ELSE NoError
            ELSE IF result_type[t] # RT_None
            THEN IF TypeAdapterStrAccepts(raw) THEN NoError ELSE ValidationError
            ELSE NoError
    IN  IF typed # NoError THEN [err |-> typed, value |-> None]
        ELSE IF result_validator[t] = ValidatorRejectsZ /\ raw = "Z"
        THEN [err |-> ValidatorError, value |-> None]
        ELSE [err |-> NoError, value |-> raw]

\* ------------------------------------------------------- status transitions
set_status(t, s) == status' = [status EXCEPT ![t] = s]

mark_running(t) ==
    /\ set_status(t, RUNNING)
    /\ UNCHANGED <<parent, depends_on, subtasks, downstreams, result>>
    /\ UNCHANGED fixedFields
    /\ err' = NoError

\* mark_successful without its upstream checks
mark_successful_unchecked(t, raw, validate_upstreams) ==
    LET v == validate_result(t, raw)
    IN  IF v.err # NoError
        THEN err' = v.err /\ UNCHANGED taskVars
        ELSE /\ result' = [result EXCEPT ![t] = v.value]
             /\ set_status(t, SUCCESSFUL)
             /\ UNCHANGED <<parent, depends_on, subtasks, downstreams>>
             /\ UNCHANGED fixedFields
             /\ err' = NoError

\* mark_successful as it would be if it set the status before it validated the
\* result
mark_successful_status_first(t, raw, validate_upstreams) ==
    IF validate_upstreams /\ \E d \in depends_on[t] : is_incomplete(d)
    THEN err' = UpstreamError /\ UNCHANGED taskVars
    ELSE IF validate_upstreams /\ \E s \in subtasks[t] : is_incomplete(s)
    THEN err' = SubtaskError /\ UNCHANGED taskVars
    ELSE LET v == validate_result(t, raw)
         IN  /\ err' = v.err
             /\ set_status(t, SUCCESSFUL)
             /\ result' = IF v.err # NoError THEN result
                          ELSE [result EXCEPT ![t] = v.value]
             /\ UNCHANGED <<parent, depends_on, subtasks, downstreams>>
             /\ UNCHANGED fixedFields

mark_successful(t, raw, validate_upstreams) ==
    IF validate_upstreams /\ \E d \in depends_on[t] : is_incomplete(d)
    THEN err' = UpstreamError /\ UNCHANGED taskVars
    ELSE IF validate_upstreams /\ \E s \in subtasks[t] : is_incomplete(s)
    THEN err' = SubtaskError /\ UNCHANGED taskVars
    ELSE LET v == validate_result(t, raw)
         IN  IF v.err # NoError
             THEN err' = v.err /\ UNCHANGED taskVars
             ELSE /\ result' = [result EXCEPT ![t] = v.value]
                  /\ set_status(t, SUCCESSFUL)
                  /\ UNCHANGED <<parent, depends_on, subtasks, downstreams>>
                  /\ UNCHANGED fixedFields
                  /\ err' = NoError

\* mark_failed as it would be if it checked the dependencies as mark_successful
\* does
mark_failed_checked(t, reason) ==
    IF \E d \in depends_on[t] : is_incomplete(d)
    THEN err' = UpstreamError /\ UNCHANGED taskVars
    ELSE /\ result' = [result EXCEPT ![t] = reason]
         /\ set_status(t, FAILED)
         /\ UNCHANGED <<parent, depends_on, subtasks, downstreams>>
         /\ UNCHANGED fixedFields
         /\ err' = NoError

mark_failed(t, reason) ==
    /\ result' = [result EXCEPT ![t] = reason]
    /\ set_status(t, FAILED)
    /\ UNCHANGED <<parent, depends_on, subtasks, downstreams>>
    /\ UNCHANGED fixedFields
    /\ err' = NoError

mark_skipped(t) ==
    /\ set_status(t, SKIPPED)
    /\ UNCHANGED <<parent, depends_on, subtasks, downstreams, result>>
    /\ UNCHANGED fixedFields
    /\ err' = NoError

\* ------------------------------------------------------- completion tools
\* the int a value stands for
IntOf(v) == CASE v = "i0" -> 0 [] v = "i1" -> 1 [] v = "i7" -> 7

\* create_success_tool: options maps each index of the option tuple to its option,
\* and is empty unless result_type is a tuple
options(t) ==
    IF result_type[t] = RT_Options
    THEN [i \in 0..(Len(OptionTuple) - 1) |-> OptionTuple[i + 1]]
    ELSE <<>>

\* the succeed tool as it would be if it passed the index on as the result
succeed_without_option_lookup(t, raw) ==
    IF is_successful(t)
    THEN err' = AlreadySuccessfulError /\ UNCHANGED taskVars
    ELSE mark_successful(t, raw, TRUE)

\* the succeed tool as it would be if it did not look at the task's status
succeed_without_status_check(t, raw) ==
    IF DOMAIN options(t) # {}
    THEN IF raw \notin IntValues \/ IntOf(raw) \notin DOMAIN options(t)
         THEN err' = InvalidOptionError /\ UNCHANGED taskVars
         ELSE mark_successful(t, options(t)[IntOf(raw)], TRUE)
    ELSE mark_successful(t, raw, TRUE)

\* the succeed tool of task t, called with raw
succeed(t, raw) ==
    IF is_successful(t)
    THEN err' = AlreadySuccessfulError /\ UNCHANGED taskVars
    ELSE IF DOMAIN options(t) # {}
    THEN IF raw \notin IntValues \/ IntOf(raw) \notin DOMAIN options(t)
         THEN err' = InvalidOptionError /\ UNCHANGED taskVars
         ELSE mark_successful(t, options(t)[IntOf(raw)], TRUE)
    ELSE mark_successful(t, raw, TRUE)

\* the fail tool of task t, called with reason
fail(t, reason) == mark_failed(t, reason)

\* ------------------------------------------------------------ construction
\* the agents of the model, and controlflow.defaults.agent
Agents == {"a1", "a2"}
DefaultAgent == "default"
\* what a caller passes as Task.agents: None (<<>>) or a non-empty list
AgentLists == {<<>>, <<"a1">>, <<"a2">>}
Objectives == {"o1", "o2"}
\* the readings of the clock that created_at is taken from
MaxTime == 2

Existing == 1..ntasks

\* the number of members of all depends_on sets together
RECURSIVE SumDeps(_)
SumDeps(S) ==
    IF S = {} THEN 0
    ELSE LET t == CHOOSE x \in S : TRUE
         IN Cardinality(depends_on[t]) + SumDeps(S \ {t})

\* str(result_type)
str_result_type(rt) ==
    CASE rt = RT_None -> "None"
      [] rt = RT_Str -> "<class 'str'>"
      [] rt = RT_Options -> "('A', 'Z')"
      [] rt \in {RT_ModelA, RT_ModelB} -> "<class 'Answer'>"

\* str(context): the repr of each key and value
str_context(cx) ==
    CASE cx = EmptyContext -> "{}"
      [] cx \in {ContextObjectA, ContextObjectB} -> "{'k': P()}"

\* hash_objects: a digest of the tuple, with no two tuples of the model sharing
\* a digest
hash_objects(objects) == objects

\* Task._generate_id, for the values of the fields it reads
generate_id(obj, ins, rt, pr, cx) ==
    hash_objects(<<"Task", obj, ins, str_result_type(rt), pr, str_context(cx)>>)

\* Task.__init__ with every field that takes part in the id given: the fields
\* are set, then add_dependency(n, d) for each d in D, then p.add_subtask(n),
\* then the id is generated.
Task_init_with(p, D, obj, now, ags, nm, ins, rt, pr, cx) ==
    LET n == ntasks + 1
    IN  /\ ntasks' = n
        /\ status' = [status EXCEPT ![n] = PENDING]
        /\ result' = [result EXCEPT ![n] = None]
        /\ result_type' = [result_type EXCEPT ![n] = rt]
        /\ result_validator' = [result_validator EXCEPT ![n] = NoValidator]
        /\ objective' = [objective EXCEPT ![n] = obj]
        /\ created_at' = [created_at EXCEPT ![n] = now]
        /\ agents' = [agents EXCEPT ![n] = ags]
        /\ name' = [name EXCEPT ![n] = nm]
        /\ instructions' = [instructions EXCEPT ![n] = ins]
        /\ prompt' = [prompt EXCEPT ![n] = pr]
        /\ context' = [context EXCEPT ![n] = cx]
        /\ parent' = [parent EXCEPT ![n] = p]
        /\ downstreams' = [t \in Tasks |->
                             IF t \in D THEN downstreams[t] \cup {n} ELSE downstreams[t]]
        /\ subtasks' = [t \in Tasks |->
                             IF t = p THEN subtasks[t] \cup {n} ELSE subtasks[t]]
        /\ depends_on' = [t \in Tasks |->
                             IF t = n THEN D
                             ELSE IF t = p THEN depends_on[t] \cup {n}
                             ELSE depends_on[t]]
        /\ id' = [id EXCEPT ![n] = generate_id(obj, ins, rt, pr, cx)]
        /\ err' = NoError

\* Task.__init__ of the next Task object n, given parent p (NoTask for none),
\* depends_on D, an objective, the clock's reading and an agent list, the other
\* fields having their defaults.
Task_init(p, D, obj, now, ags) ==
    Task_init_with(p, D, obj, now, ags, None, None, RT_Str, None, EmptyContext)

\* ------------------------------------------------------------ Task.__eq__
\* list(s) of a set s of tasks: the model iterates a set in the order of the
\* objects' identities
RECURSIVE SetToSeq(_)
SetToSeq(S) ==
    IF S = {} THEN <<>>
    ELSE LET m == CHOOSE x \in S : \A y \in S : x <= y
         IN <<m>> \o SetToSeq(S \ {m})

\* a == b as list and dict comparison evaluate it: "T", "F", or "E" when the
\* comparison recurses without end (RecursionError). visiting holds the pairs
\* whose comparison is in progress.
RECURSIVE TaskEqR(_, _, _)
RECURSIVE ListEqR(_, _, _, _)

ListEqR(la, lb, i, visiting) ==
    IF i > Len(la) THEN "T"
    ELSE LET r == TaskEqR(la[i], lb[i], visiting)
         IN IF r = "T" THEN ListEqR(la, lb, i + 1, visiting) ELSE r

\* Task.__eq__ is dict(a) == dict(b), field by field in declaration order, the
\* first difference deciding: id, name, objective, instructions, agents, context,
\* parent, depends_on (as lists), prompt, status, result, result_type,
\* result_validator, created_at.
TaskEqR(a, b, visiting) ==
    IF a = b THEN "T"
    ELSE IF {a, b} \in visiting THEN "E"
    ELSE IF \/ id[a] # id[b]
            \/ name[a] # name[b]
            \/ objective[a] # objective[b]
            \/ instructions[a] # instructions[b]
            \/ result_type[a] # result_type[b]
            \/ agents[a] # agents[b]
            \/ context[a] # context[b]
    THEN "F"
    ELSE LET inner == visiting \cup {{a, b}}
             parents ==
                 IF parent[a] = parent[b] THEN "T"
                 ELSE IF parent[a] = NoTask \/ parent[b] = NoTask THEN "F"
                 ELSE TaskEqR(parent[a], parent[b], inner)
             la == SetToSeq(depends_on[a])
             lb == SetToSeq(depends_on[b])
             deps ==
                 IF Len(la) # Len(lb) THEN "F" ELSE ListEqR(la, lb, 1, inner)
         IN  IF parents # "T" THEN parents
             ELSE IF deps # "T" THEN deps
             ELSE IF \/ prompt[a] # prompt[b]
                     \/ status[a] # status[b]
                     \/ result[a] # result[b]
                     \/ result_validator[a] # result_validator[b]
                     \/ created_at[a] # created_at[b]
             THEN "F"
             ELSE "T"

\* Task.__eq__ replaced by identity
TaskEq_identity(a, b) == IF a = b THEN "T" ELSE "F"

TaskEq(a, b) == TaskEqR(a, b, {})

\* `task in list`: "T", "F" or "E"
RECURSIVE InList(_, _, _)
InList(list, task, i) ==
    IF i > Len(list) THEN "F"
    ELSE LET r == TaskEq(list[i], task)
         IN IF r = "F" THEN InList(list, task, i + 1) ELSE r

\* ------------------------------------------------------- Task.get_agents
\* get_agents as it would be if it did not ask the parent
get_agents_without_parent(t) ==
    IF agents[t] # <<>> THEN agents[t]
    ELSE IF flow_agent # None THEN <<flow_agent>>
    ELSE <<DefaultAgent>>

RECURSIVE get_agents(_)
get_agents(t) ==
    IF agents[t] # <<>> THEN agents[t]
    ELSE IF parent[t] # NoTask THEN get_agents(parent[t])
    ELSE IF flow_agent # None THEN <<flow_agent>>
    ELSE <<DefaultAgent>>

\* Task.subtasks: sorted(self._subtasks, key=created_at), a stable sort
RECURSIVE SortedByCreatedAt(_)
SortedByCreatedAt(S) ==
    IF S = {} THEN <<>>
    ELSE LET m == CHOOSE x \in S : \A y \in S :
                      \/ created_at[x] < created_at[y]
                      \/ created_at[x] = created_at[y] /\ x <= y
         IN <<m>> \o SortedByCreatedAt(S \ {m})

subtasks_property(t) == SortedByCreatedAt(subtasks[t])

\* -------------------------------------------------- Orchestrator.get_tasks
RecursionError == "RecursionError"
InvalidFilterError == "ValueError: invalid filter"

\* collect_tasks of get_tasks; acc is [err, all_tasks, active_tasks]
RECURSIVE collect_tasks(_, _, _)
RECURSIVE collect_each(_, _, _, _)

collect_each(list, i, is_root, acc) ==
    IF i > Len(list) THEN acc
    ELSE collect_each(list, i + 1, is_root, collect_tasks(list[i], is_root, acc))

collect_tasks(task, is_root, acc) ==
    IF acc.err # NoError THEN acc
    ELSE LET seen == InList(acc.all_tasks, task, 1)
         IN  IF seen = "E" THEN [acc EXCEPT !.err = RecursionError]
             ELSE IF seen = "T" THEN acc
             ELSE collect_each(
                      subtasks_property(task), 1, is_root,
                      [err |-> NoError,
                       all_tasks |-> Append(acc.all_tasks, task),
                       active_tasks |->
                           IF is_root /\ is_ready(task)
                           THEN Append(acc.active_tasks, task)
                           ELSE acc.active_tasks])

\* the loop over self.tasks
collected ==
    collect_each(orch_tasks, 1, TRUE,
                 [err |-> NoError, all_tasks |-> <<>>, active_tasks |-> <<>>])

\* the walk up from one root: `current = task.parent; while current: ...`
RECURSIVE collect_ancestors(_, _)
collect_ancestors(current, acc) ==
    IF current = NoTask \/ acc.err # NoError THEN acc
    ELSE LET seen == InList(acc.all_tasks, current, 1)
             next ==
                 IF seen = "E" THEN [acc EXCEPT !.err = RecursionError]
                 ELSE IF seen = "T" THEN acc
                 ELSE [acc EXCEPT !.all_tasks = Append(@, current)]
         IN collect_ancestors(parent[current], next)

RECURSIVE collect_all_ancestors(_, _)
collect_all_ancestors(i, acc) ==
    IF i > Len(orch_tasks) THEN acc
    ELSE collect_all_ancestors(
             i + 1, collect_ancestors(parent[orch_tasks[i]], acc))

\* `self.agent in task.get_agents()`
AgentIn(a, list) == \E i \in DOMAIN list : list[i] = a

\* get_tasks as it would be if "assigned" filtered all_tasks, not active_tasks,
\* by agent
get_tasks_assigned_from_all(filter) ==
    IF filter \notin {"active", "assigned", "all"}
    THEN [err |-> InvalidFilterError, tasks |-> <<>>]
    ELSE IF collected.err # NoError THEN [err |-> collected.err, tasks |-> <<>>]
    ELSE IF filter = "active"
    THEN [err |-> NoError, tasks |-> collected.active_tasks]
    ELSE IF filter = "assigned"
    THEN [err |-> NoError,
          tasks |-> SelectSeq(collected.all_tasks,
                              LAMBDA t : AgentIn(orch_agent, get_agents(t)))]
    ELSE LET r == collect_all_ancestors(1, collected)
         IN [err |-> r.err, tasks |-> IF r.err = NoError THEN r.all_tasks ELSE <<>>]

\* get_tasks(filter): the error raised (NoError if none) and the list returned
get_tasks(filter) ==
    IF filter \notin {"active", "assigned", "all"}
    THEN [err |-> InvalidFilterError, tasks |-> <<>>]
    ELSE IF collected.err # NoError THEN [err |-> collected.err, tasks |-> <<>>]
    ELSE IF filter = "active"
    THEN [err |-> NoError, tasks |-> collected.active_tasks]
    ELSE IF filter = "assigned"
    THEN [err |-> NoError,
          tasks |-> SelectSeq(collected.active_tasks,
                              LAMBDA t : AgentIn(orch_agent, get_agents(t)))]
    ELSE LET r == collect_all_ancestors(1, collected)
         IN [err |-> r.err, tasks |-> IF r.err = NoError THEN r.all_tasks ELSE <<>>]

\* ------------------------------------------ Orchestrator.get_task_hierarchy
KeyError == "KeyError"

\* task_dict_map as the dict comprehension builds it: one dict per id, in which
\* a later task with the same id takes the place of an earlier one
task_dict_map_init(all_tasks) ==
    [i \in {id[t] : t \in Range(all_tasks)} |->
        [task |-> all_tasks[CHOOSE k \in DOMAIN all_tasks :
                               /\ id[all_tasks[k]] = i
                               /\ \A j \in DOMAIN all_tasks :
                                      id[all_tasks[j]] = i => j <= k],
         children |-> <<>>]]

\* the loop of get_task_hierarchy from the k-th task on; acc is [err, hierarchy,
\* task_dict_map]. hierarchy holds the keys of the top-level dicts and children
\* the keys of the dicts appended, the dicts themselves being those of
\* task_dict_map.
RECURSIVE hierarchy_loop(_, _, _)
hierarchy_loop(all_tasks, k, acc) ==
    IF k > Len(all_tasks) \/ acc.err # NoError THEN acc
    ELSE LET task == all_tasks[k]
         IN hierarchy_loop(
                all_tasks, k + 1,
                IF parent[task] # NoTask
                THEN IF id[parent[task]] \notin DOMAIN acc.task_dict_map
                     THEN [acc EXCEPT !.err = KeyError]
                     ELSE [acc EXCEPT !.task_dict_map[id[parent[task]]].children =
                                          Append(@, id[task])]
                ELSE [acc EXCEPT !.hierarchy = @ \cup {id[task]}])

\* get_task_hierarchy(): the error raised (NoError if none), the keys of the
\* hierarchy returned and the dicts they stand for
get_task_hierarchy ==
    LET all == get_tasks("all")
    IN  IF all.err # NoError
        THEN [err |-> all.err, hierarchy |-> {}, task_dict_map |-> <<>>]
        ELSE hierarchy_loop(all.tasks, 1,
                            [err |-> NoError, hierarchy |-> {},
                             task_dict_map |-> task_dict_map_init(all.tasks)])

\* get_available_agents as it would be without the current agent
get_available_agents_of_active_tasks ==
    UNION {Range(get_agents(t)) : t \in Range(get_tasks("active").tasks)}

\* get_available_agents: the agents of the active tasks, and the current agent
get_available_agents ==
    UNION {Range(get_agents(t)) : t \in Range(get_tasks("active").tasks)}
        \cup {orch_agent}

\* --------------------------------------------------------------- the specs
\* What the callers of these specifications pass: mark_successful's default
\* result (None) or a string, and mark_failed's default reason (None).
RawResults == {None, "A"}
Reasons == {None}

\* run_async() has not been called
NoRun == [pc |-> "none", agent |-> None, delegated |-> FALSE, exit |-> None]

\* no Controller has been constructed
NoController == [made |-> FALSE, agents |-> <<>>, tasks |-> <<>>]

\* no Orchestrator yet, in a flow whose agent is fa (None if it has none)
NoOrchestratorIn(fa) ==
    /\ pc = "none"
    /\ orch_tasks = <<>>
    /\ orch_agent = None
    /\ flow_agent = fa
    /\ controller = NoController
    /\ legacy_tasks = <<>>
    /\ controller_run = NoRun
    /\ emitted = <<>>
    /\ loop_exc = None
    /\ exc = None
    /\ end_turn = FALSE
    /\ end_session = FALSE
    /\ next_agent = None
    /\ calls = 0
    /\ last_event = [event |-> None, persist |-> FALSE, raiser |-> 0]
    /\ delivered = <<>>
    /\ persisted = FALSE
    /\ to_yield = 0
    /\ invoking = 0
    /\ turn_exit = None

\* no Orchestrator yet, and the flow has no agent
NoOrchestrator == NoOrchestratorIn(None)

\* The fields of Task objects constructed with no parent, no dependencies and
\* the default fields.
DefaultTasks ==
    /\ status = [t \in Tasks |-> PENDING]
    /\ parent = [t \in Tasks |-> NoTask]
    /\ depends_on = [t \in Tasks |-> {}]
    /\ subtasks = [t \in Tasks |-> {}]
    /\ downstreams = [t \in Tasks |-> {}]
    /\ result = [t \in Tasks |-> None]
    /\ result_type = [t \in Tasks |-> RT_Str]
    /\ result_validator = [t \in Tasks |-> NoValidator]
    /\ agents = [t \in Tasks |-> <<>>]
    /\ objective = [t \in Tasks |-> "o1"]
    /\ created_at = [t \in Tasks |-> 1]
    /\ name = [t \in Tasks |-> None]
    /\ instructions = [t \in Tasks |-> None]
    /\ prompt = [t \in Tasks |-> None]
    /\ context = [t \in Tasks |-> EmptyContext]
    /\ id = [t \in Tasks |-> generate_id("o1", None, RT_Str, None, EmptyContext)]
    /\ err = NoError

\* ---- Spec: the task graph on its own; every Task object exists from the start
Init == ntasks = NTasks /\ DefaultTasks /\ NoOrchestrator

AddSubtask ==
    /\ pc \in {"none", "ready"}
    /\ \E p, c \in Existing : SumDeps(Tasks) < MaxDeps /\ add_subtask(p, c)
    /\ UNCHANGED orchVars

AddDependency ==
    /\ pc \in {"none", "ready"}
    /\ \E a, b \in Existing : SumDeps(Tasks) < MaxDeps /\ add_dependency(a, b)
    /\ UNCHANGED orchVars

MarkRunning ==
    /\ pc \in {"none", "ready"}
    /\ \E t \in Existing : mark_running(t)
    /\ UNCHANGED orchVars

MarkSuccessful ==
    /\ pc \in {"none", "ready"}
    /\ \E t \in Existing, raw \in RawResults : mark_successful(t, raw, TRUE)
    /\ UNCHANGED orchVars

MarkFailed ==
    /\ pc \in {"none", "ready"}
    /\ \E t \in Existing, reason \in Reasons : mark_failed(t, reason)
    /\ UNCHANGED orchVars

MarkSkipped ==
    /\ pc \in {"none", "ready"}
    /\ \E t \in Existing : mark_skipped(t)
    /\ UNCHANGED orchVars

Succeed ==
    /\ pc \in {"none", "ready"}
    /\ \E t \in Existing, raw \in RawResults : succeed(t, raw)
    /\ UNCHANGED orchVars

Fail ==
    /\ pc \in {"none", "ready"}
    /\ \E t \in Existing, reason \in Reasons : fail(t, reason)
    /\ UNCHANGED orchVars

Next ==
    \/ AddSubtask
    \/ AddDependency
    \/ MarkRunning
    \/ MarkSuccessful
    \/ MarkFailed
    \/ MarkSkipped
    \/ Succeed
    \/ Fail

Spec == Init /\ [][Next]_vars

\* ---- SpecViews: tasks are constructed one by one, an Orchestrator is created
\* over some of them, and callers mark tasks; no session runs.
MaxRoots == 2
\* the number of Task objects the callers of these specifications construct
MaxConstructed == 2

\* the lists of at most MaxRoots of the constructed tasks
RootLists == UNION {[1..n -> Existing] : n \in 1..MaxRoots}

InitViews == ntasks = 0 /\ DefaultTasks /\ NoOrchestrator

\* Task(objective=obj, parent=p, depends_on=D, agents=ags), for an objective of
\* objs, at a reading of the clock in times
ConstructAt(objs, times) ==
    /\ pc = "none"
    /\ ntasks < MaxConstructed
    /\ \E p \in Existing \cup {NoTask}, D \in SUBSET Existing, obj \in objs,
          now \in times, ags \in AgentLists :
          /\ SumDeps(Tasks) + Cardinality(D) + (IF p = NoTask THEN 0 ELSE 1) <= MaxDeps
          /\ \A t \in Existing : created_at[t] <= now
          /\ Task_init(p, D, obj, now, ags)
    /\ UNCHANGED orchVars

Construct == ConstructAt(Objectives, 1..MaxTime)

\* Orchestrator(tasks=roots, agent=a, flow=...)
Orchestrator_init(roots, a) ==
    /\ pc = "none"
    /\ pc' = "ready"
    /\ orch_tasks' = roots
    /\ orch_agent' = a
    /\ UNCHANGED <<flow_agent, controller, legacy_tasks, controller_run, emitted, loop_exc, exc>>
    /\ UNCHANGED strategyVars
    /\ UNCHANGED handlerVars
    /\ UNCHANGED stepVars
    /\ UNCHANGED taskVars
    /\ err' = NoError

CreateOrchestrator ==
    \E roots \in RootLists, a \in Agents \cup {DefaultAgent} : Orchestrator_init(roots, a)

NextViews ==
    \/ Construct
    \/ CreateOrchestrator
    \/ MarkRunning
    \/ MarkSuccessful
    \/ MarkFailed
    \/ MarkSkipped

SpecViews == InitViews /\ [][NextViews]_vars

\* ---- SpecConfig: inside a flow, tasks are constructed with any value for
\* agents, an Orchestrator or a legacy Controller is constructed over them, and
\* get_tasks is called with any filter name.
AgentsError == "ValueError: Agents must be None or a non-empty list of agents"
ControllerAgentsError == "ValueError: At least one agent is required"

\* what a caller passes as agents: None, the empty list, or a list of one agent
AgentsArgs ==
    {[is_none |-> TRUE, list |-> <<>>]}
        \cup {[is_none |-> FALSE, list |-> l] : l \in {<<>>, <<"a1">>, <<"a2">>}}

\* Task._validate_agents as it would be if it let the empty list through
Task_validate_agents_any(v) == NoError

\* Task._validate_agents: the error it raises (NoError if none)
Task_validate_agents(v) ==
    IF ~v.is_none /\ v.list = <<>> THEN AgentsError ELSE NoError

\* Controller._validate_agents (mode="before"): the error it raises
Controller_validate_agents(v) ==
    IF v.is_none \/ v.list = <<>> THEN ControllerAgentsError ELSE NoError

\* Task(objective=obj, parent=p, depends_on=D, agents=v): pydantic validates the
\* fields, agents among them, before the task is wired into the graph
Task_new(p, D, obj, now, v) ==
    IF Task_validate_agents(v) # NoError
    THEN err' = Task_validate_agents(v) /\ UNCHANGED taskVars
    ELSE Task_init(p, D, obj, now, v.list)

\* Controller(flow=..., agents=v, tasks=ts)
Controller_init(v, ts) ==
    /\ IF Controller_validate_agents(v) # NoError
       THEN /\ err' = Controller_validate_agents(v)
            /\ controller' = controller
       ELSE /\ err' = NoError
            /\ controller' = [made |-> TRUE, agents |-> v.list, tasks |-> ts]
    /\ UNCHANGED <<pc, orch_tasks, orch_agent, flow_agent, legacy_tasks, controller_run, emitted, loop_exc, exc>>
    /\ UNCHANGED strategyVars
    /\ UNCHANGED handlerVars
    /\ UNCHANGED stepVars
    /\ UNCHANGED taskVars

\* the filter names a caller passes to get_tasks
FilterArgs == {"active", "assigned", "all", "ready"}

\* a call of get_tasks(filter): the model keeps the error it raised
get_tasks_call(filter) ==
    /\ err' = get_tasks(filter).err
    /\ UNCHANGED taskVars
    /\ UNCHANGED orchVars

InitConfig ==
    /\ ntasks = 0
    /\ DefaultTasks
    /\ \E fa \in Agents \cup {None} : NoOrchestratorIn(fa)

ConstructWithAgents ==
    /\ pc = "none"
    /\ ~controller.made
    /\ ntasks < NTasks
    /\ \E p \in Existing \cup {NoTask}, v \in AgentsArgs : Task_new(p, {}, "o1", 1, v)
    /\ UNCHANGED orchVars

CreateOrchestratorInFlow ==
    /\ ~controller.made
    /\ CreateOrchestrator

\* the task lists a Controller is constructed with: none, or one task
ControllerTaskLists == {<<>>} \cup {<<t>> : t \in Existing}

CreateController ==
    /\ pc = "none"
    /\ \E v \in AgentsArgs, ts \in ControllerTaskLists : Controller_init(v, ts)

GetTasks ==
    /\ pc = "ready"
    /\ \E filter \in FilterArgs : get_tasks_call(filter)

NextConfig ==
    \/ ConstructWithAgents
    \/ CreateOrchestratorInFlow
    \/ CreateController
    \/ GetTasks

SpecConfig == InitConfig /\ [][NextConfig]_vars

\* ---- SpecId: tasks are constructed with any values of the fields the id is
\* derived from, and of name, agents, parent and depends_on.
Names == {None, "n1"}
Instructions == {None, "i1"}
Prompts == {None, "p1"}
IdResultTypes == {RT_Str, RT_ModelA, RT_ModelB}
Contexts == {EmptyContext, ContextObjectA, ContextObjectB}

ConstructWithFields ==
    /\ ntasks < MaxConstructed
    /\ \E p \in Existing \cup {NoTask}, D \in SUBSET Existing, obj \in Objectives,
          ags \in {<<>>, <<"a1">>}, nm \in Names, ins \in Instructions,
          rt \in IdResultTypes, pr \in Prompts, cx \in Contexts :
          Task_init_with(p, D, obj, ntasks + 1, ags, nm, ins, rt, pr, cx)
    /\ UNCHANGED orchVars

NextId == ConstructWithFields

SpecId == InitViews /\ [][NextId]_vars

\* ---- SpecGraph: tasks are constructed, linked by add_subtask and
\* add_dependency, and marked, in any order.
NextGraph ==
    \/ Construct
    \/ AddSubtask
    \/ AddDependency
    \/ MarkRunning
    \/ MarkSuccessful
    \/ MarkFailed
    \/ MarkSkipped

SpecGraph == InitViews /\ [][NextGraph]_vars

\* ---- SpecResult: tasks constructed with any result_type and result_validator
\* are linked by add_dependency and marked, by the mark_* methods and by the
\* success tool, with any value as the result.
MaxResultTasks == 2
ResultTypes == {RT_None, RT_Str, RT_Options}
\* the validators that differ in what they accept
Validators == {NoValidator, ValidatorRejectsZ}
AnyValues == {None} \cup IntValues \cup StrValues

\* Task(objective="o1", result_type=..., result_validator=...), MaxResultTasks
\* times
InitResult ==
    /\ ntasks = MaxResultTasks
    /\ status = [t \in Tasks |-> PENDING]
    /\ parent = [t \in Tasks |-> NoTask]
    /\ depends_on = [t \in Tasks |-> {}]
    /\ subtasks = [t \in Tasks |-> {}]
    /\ downstreams = [t \in Tasks |-> {}]
    /\ result = [t \in Tasks |-> None]
    /\ result_type \in {f \in [Tasks -> ResultTypes] :
                           \A t \in Tasks \ Existing : f[t] = RT_Str}
    /\ result_validator \in {f \in [Tasks -> Validators] :
                                \A t \in Tasks \ Existing : f[t] = NoValidator}
    /\ agents = [t \in Tasks |-> <<>>]
    /\ objective = [t \in Tasks |-> "o1"]
    /\ created_at = [t \in Tasks |-> 1]
    /\ name = [t \in Tasks |-> None]
    /\ instructions = [t \in Tasks |-> None]
    /\ prompt = [t \in Tasks |-> None]
    /\ context = [t \in Tasks |-> EmptyContext]
    /\ id = [t \in Tasks |-> generate_id("o1", None, result_type[t], None, EmptyContext)]
    /\ err = NoError
    /\ NoOrchestrator

MarkSuccessfulAny ==
    /\ pc = "none"
    /\ \E t \in Existing, raw \in AnyValues, validate_upstreams \in BOOLEAN :
          mark_successful(t, raw, validate_upstreams)
    /\ UNCHANGED orchVars

SucceedAny ==
    /\ pc = "none"
    /\ \E t \in Existing, raw \in AnyValues : succeed(t, raw)
    /\ UNCHANGED orchVars

NextResult ==
    \/ AddDependency
    \/ MarkRunning
    \/ MarkSuccessfulAny
    \/ SucceedAny
    \/ MarkFailed
    \/ MarkSkipped

SpecResult == InitResult /\ [][NextResult]_vars

\* ---- SpecValidate: as SpecResult, with the second task a plain one
\* (result_type str, no validator): Task(objective="o1", result_type=...,
\* result_validator=...) and Task(objective="o1").
InitValidate ==
    /\ InitResult
    /\ \A t \in Existing \ {1} :
          result_type[t] = RT_Str /\ result_validator[t] = NoValidator

SpecValidate == InitValidate /\ [][NextResult]_vars

\* ---- SpecOrch: tasks are constructed at successive readings of the clock, an
\* Orchestrator is created over some of them, and run() is called once.
MaxCallsPerTurn == 2

\* the exceptions of the model: one that is an Exception, one that is only a
\* BaseException (KeyboardInterrupt), and what a handler raises
AnException == "Exception"
ABaseException == "BaseException"
HandlerError == "HandlerError"

\* the session events
OrchestratorStart == "OrchestratorStart"
OrchestratorError == "OrchestratorError"
OrchestratorEnd == "OrchestratorEnd"

ConstructInOrder == ConstructAt({"o1"}, {ntasks + 1})

\* the turn strategy
begin_turn ==
    /\ end_turn' = FALSE
    /\ next_agent' = None
    /\ calls' = 0
    /\ UNCHANGED end_session

should_end_turn == end_turn \/ calls >= MaxCallsPerTurn

should_end_session == end_session

\* the first agent of a set in the canonical order
AgentOrder == <<"a1", "a2", DefaultAgent>>
FirstAgent(S) ==
    AgentOrder[CHOOSE i \in DOMAIN AgentOrder :
                  /\ AgentOrder[i] \in S
                  /\ \A j \in 1..(i - 1) : AgentOrder[j] \notin S]

get_next_agent(current, available) ==
    LET requested == IF next_agent = None THEN current ELSE next_agent
    IN IF requested \in available THEN requested ELSE FirstAgent(available)

\* the tools of the turn strategy, as the agent calls them
pass_turn(a) ==
    /\ next_agent' = a
    /\ end_turn' = TRUE
    /\ UNCHANGED end_session

end_session_tool ==
    /\ end_session' = TRUE
    /\ end_turn' = TRUE
    /\ UNCHANGED next_agent

\* the handlers registered with the Orchestrator, in registration order
NHandlers == 2
Handlers == [i \in 1..NHandlers |-> i]

\* an event an agent invocation yields, and how many of them one invocation yields
AgentEvent == "AgentEvent"
MaxEvents == 2

SessionEvents == {OrchestratorStart, OrchestratorError, OrchestratorEnd}

\* handle_event as it would be if the event were persisted before the handlers
\* are called
handle_event_persist_first(event, persist, raiser) ==
    /\ emitted' = IF event \in SessionEvents THEN Append(emitted, event) ELSE emitted
    /\ last_event' = [event |-> event, persist |-> persist, raiser |-> raiser]
    /\ delivered' = SubSeq(Handlers, 1, IF raiser = 0 THEN NHandlers ELSE raiser)
    /\ persisted' = persist

\* handle_event(event): the handlers are called in order; handler number raiser
\* raises (0: none does), which ends the loop over the handlers and the call;
\* then the event is added to the flow's events if its persist flag is set
handle_event(event, persist, raiser) ==
    /\ emitted' = IF event \in SessionEvents THEN Append(emitted, event) ELSE emitted
    /\ last_event' = [event |-> event, persist |-> persist, raiser |-> raiser]
    /\ delivered' = SubSeq(Handlers, 1, IF raiser = 0 THEN NHandlers ELSE raiser)
    /\ persisted' = (raiser = 0 /\ persist)

\* run(), line 140
Run_Start ==
    /\ pc = "ready"
    /\ \E persist \in BOOLEAN, raiser \in 0..NHandlers :
          /\ handle_event(OrchestratorStart, persist, raiser)
          /\ IF raiser = 0
             THEN pc' = "loop" /\ exc' = exc
             ELSE pc' = "raised" /\ exc' = HandlerError
    /\ UNCHANGED <<orch_tasks, orch_agent, flow_agent, controller, legacy_tasks, controller_run, loop_exc, err>>
    /\ UNCHANGED strategyVars
    /\ UNCHANGED stepVars
    /\ UNCHANGED taskVars

\* the condition of run()'s while loop, as the loop without should_end_session
run_loop_condition_active_only == get_tasks("active").tasks # <<>>

\* the condition of run()'s while loop
run_loop_condition ==
    get_tasks("active").tasks # <<>> /\ ~should_end_session

LoopCheck ==
    /\ pc = "loop"
    /\ pc' = IF run_loop_condition THEN "begin_turn" ELSE "finally"
    /\ UNCHANGED <<orch_tasks, orch_agent, flow_agent, controller, legacy_tasks, controller_run, emitted, loop_exc, exc, err>>
    /\ UNCHANGED strategyVars
    /\ UNCHANGED handlerVars
    /\ UNCHANGED stepVars
    /\ UNCHANGED taskVars

\* run_turn(), line 111
BeginTurn ==
    /\ pc = "begin_turn"
    /\ begin_turn
    /\ pc' = "turn_loop"
    /\ UNCHANGED <<orch_tasks, orch_agent, flow_agent, controller, legacy_tasks, controller_run, emitted, loop_exc, exc, err>>
    /\ UNCHANGED handlerVars
    /\ UNCHANGED stepVars
    /\ UNCHANGED taskVars

\* run_turn(), line 112
TurnCheck ==
    /\ pc = "turn_loop"
    /\ IF should_end_turn
       THEN pc' = "advance" /\ turn_exit' = "should_end_turn"
       ELSE pc' = "invoke" /\ turn_exit' = turn_exit
    /\ UNCHANGED <<orch_tasks, orch_agent, flow_agent, controller, legacy_tasks, controller_run, emitted, loop_exc, exc, err>>
    /\ UNCHANGED <<to_yield, invoking>>
    /\ UNCHANGED strategyVars
    /\ UNCHANGED handlerVars
    /\ UNCHANGED taskVars

\* run_turn(), lines 113-115: the agent is invoked with the tools of its assigned
\* tasks and of the turn strategy.  The agent calls no tool, or the success or
\* fail tool of an assigned task, or a tool of the turn strategy, and has some
\* events to yield; or the invocation raises.
AgentStep ==
    /\ pc = "invoke"
    /\ UNCHANGED <<orch_tasks, orch_agent, flow_agent, controller, legacy_tasks, controller_run, emitted, turn_exit>>
    /\ UNCHANGED handlerVars
    /\ \/ /\ pc' = "events"
          /\ calls' = calls + 1
          /\ invoking' = invoking + 1
          /\ to_yield' \in 0..MaxEvents
          /\ UNCHANGED <<loop_exc, exc>>
          /\ \/ UNCHANGED <<end_turn, end_session, next_agent, taskVars, err>>
             \/ /\ \E t \in Range(get_tasks("assigned").tasks), raw \in RawResults :
                      succeed(t, raw)
                /\ UNCHANGED <<end_turn, end_session, next_agent>>
             \/ /\ \E t \in Range(get_tasks("assigned").tasks), reason \in Reasons :
                      fail(t, reason)
                /\ UNCHANGED <<end_turn, end_session, next_agent>>
             \/ /\ \E a \in get_available_agents : pass_turn(a)
                /\ UNCHANGED <<taskVars, err>>
             \/ /\ end_session_tool
                /\ UNCHANGED <<taskVars, err>>
       \/ /\ loop_exc' = AnException
          /\ pc' = "except"
          /\ UNCHANGED <<exc, err, to_yield, invoking>>
          /\ UNCHANGED strategyVars
          /\ UNCHANGED taskVars
       \/ /\ loop_exc' = ABaseException
          /\ exc' = ABaseException
          /\ pc' = "finally"
          /\ UNCHANGED <<err, to_yield, invoking>>
          /\ UNCHANGED strategyVars
          /\ UNCHANGED taskVars

\* run_turn(), lines 115-116: the next event of the invocation is handled; a
\* handler that raises ends the invocation and the loop
HandleStepEvent ==
    /\ pc = "events"
    /\ to_yield > 0
    /\ \E persist \in BOOLEAN, raiser \in 0..NHandlers :
          /\ handle_event(AgentEvent, persist, raiser)
          /\ IF raiser = 0
             THEN /\ pc' = "events"
                  /\ to_yield' = to_yield - 1
                  /\ UNCHANGED <<loop_exc, invoking>>
             ELSE /\ pc' = "except"
                  /\ loop_exc' = AnException
                  /\ to_yield' = 0
                  /\ invoking' = invoking - 1
    /\ UNCHANGED <<orch_tasks, orch_agent, flow_agent, controller, legacy_tasks, controller_run, exc, err, turn_exit>>
    /\ UNCHANGED strategyVars
    /\ UNCHANGED taskVars

\* the for loop of line 115 as it would be if it could end with events left
agent_events_exhausted_early == TRUE

\* the for loop of line 115 ends when the invocation has no event left to yield
agent_events_exhausted == to_yield = 0

StepDone ==
    /\ pc = "events"
    /\ agent_events_exhausted
    /\ pc' = "after_step"
    /\ invoking' = invoking - 1
    /\ UNCHANGED <<orch_tasks, orch_agent, flow_agent, controller, legacy_tasks, controller_run, emitted, loop_exc, exc, err>>
    /\ UNCHANGED <<to_yield, turn_exit>>
    /\ UNCHANGED strategyVars
    /\ UNCHANGED handlerVars
    /\ UNCHANGED taskVars

\* the test of line 123 as it would be if it asked whether an active task lists
\* the current agent
agent_unavailable_for_active_tasks ==
    \A t \in Range(get_tasks("active").tasks) : orch_agent \notin Range(get_agents(t))

\* run_turn(), line 123: the current agent is not among the available agents
agent_unavailable == orch_agent \notin get_available_agents

\* run_turn(), lines 118-124
AfterStep ==
    /\ pc = "after_step"
    /\ IF get_tasks("active").tasks = <<>>
       THEN pc' = "advance" /\ turn_exit' = "no_active_task"
       ELSE IF agent_unavailable
       THEN pc' = "advance" /\ turn_exit' = "agent_unavailable"
       ELSE pc' = "turn_loop" /\ turn_exit' = turn_exit
    /\ UNCHANGED <<orch_tasks, orch_agent, flow_agent, controller, legacy_tasks, controller_run, emitted, loop_exc, exc, err>>
    /\ UNCHANGED <<to_yield, invoking>>
    /\ UNCHANGED strategyVars
    /\ UNCHANGED handlerVars
    /\ UNCHANGED taskVars

\* run_turn(), lines 126-128
Advance ==
    /\ pc = "advance"
    /\ orch_agent' = get_next_agent(orch_agent, get_available_agents)
    /\ pc' = "loop"
    /\ UNCHANGED <<orch_tasks, flow_agent, controller, legacy_tasks, controller_run, emitted, loop_exc, exc, err>>
    /\ UNCHANGED strategyVars
    /\ UNCHANGED handlerVars
    /\ UNCHANGED stepVars
    /\ UNCHANGED taskVars

\* run(), lines 147-149: the error event is handled, then the exception is
\* raised again, unless a handler raised
Except ==
    /\ pc = "except"
    /\ \E persist \in BOOLEAN, raiser \in 0..NHandlers :
          /\ handle_event(OrchestratorError, persist, raiser)
          /\ exc' = IF raiser = 0 THEN loop_exc ELSE HandlerError
    /\ pc' = "finally"
    /\ UNCHANGED <<orch_tasks, orch_agent, flow_agent, controller, legacy_tasks, controller_run, loop_exc, err>>
    /\ UNCHANGED strategyVars
    /\ UNCHANGED stepVars
    /\ UNCHANGED taskVars

\* run()'s finally clause, as a clause that runs only when nothing was raised
run_finally_on_return_only ==
    IF exc = None
    THEN \E persist \in BOOLEAN, raiser \in 0..NHandlers :
            /\ handle_event(OrchestratorEnd, persist, raiser)
            /\ IF raiser = 0
               THEN pc' = "returned" /\ exc' = exc
               ELSE pc' = "raised" /\ exc' = HandlerError
    ELSE /\ pc' = "raised"
         /\ UNCHANGED <<emitted, exc>>
         /\ UNCHANGED handlerVars

\* run(), lines 150-151: the end event is handled, then run() returns or the
\* pending exception goes on, unless a handler raised
run_finally ==
    \E persist \in BOOLEAN, raiser \in 0..NHandlers :
        /\ handle_event(OrchestratorEnd, persist, raiser)
        /\ IF raiser = 0
           THEN pc' = (IF exc = None THEN "returned" ELSE "raised") /\ exc' = exc
           ELSE pc' = "raised" /\ exc' = HandlerError

Finally ==
    /\ pc = "finally"
    /\ run_finally
    /\ UNCHANGED <<orch_tasks, orch_agent, flow_agent, controller, legacy_tasks, controller_run, loop_exc, err>>
    /\ UNCHANGED strategyVars
    /\ UNCHANGED stepVars
    /\ UNCHANGED taskVars

\* the limits a caller of Task.run passes: 0 stands for None (the default)
MaxLimit == 2
Limits == 0..MaxLimit

UnexpectedKeywordError == "TypeError: run() got an unexpected keyword argument"

\* Task.run(max_calls_per_turn=c, max_turns=m) of task t: an Orchestrator is
\* created for [t] and the first agent of t, and its run() is called with the two
\* limits as keyword arguments; run() has no such parameters, so the call raises
\* before the body of run() is entered
Task_run(t, max_calls_per_turn, max_turns) ==
    /\ pc = "none"
    /\ orch_tasks' = <<t>>
    /\ orch_agent' = get_agents(t)[1]
    /\ exc' = UnexpectedKeywordError
    /\ pc' = "raised"
    /\ UNCHANGED <<flow_agent, controller, legacy_tasks, controller_run, emitted, loop_exc, err>>
    /\ UNCHANGED strategyVars
    /\ UNCHANGED handlerVars
    /\ UNCHANGED stepVars
    /\ UNCHANGED taskVars

TaskRun ==
    \E t \in Existing, c \in Limits, m \in Limits : Task_run(t, c, m)

NextOrch ==
    \/ ConstructInOrder
    \/ TaskRun
    \/ CreateOrchestrator
    \/ Run_Start
    \/ LoopCheck
    \/ BeginTurn
    \/ TurnCheck
    \/ AgentStep
    \/ HandleStepEvent
    \/ StepDone
    \/ AfterStep
    \/ Advance
    \/ Except
    \/ Finally

SpecOrch == InitViews /\ [][NextOrch]_vars

\* ---- SpecSession: an Orchestrator is created over one root task that has no
\* dependencies, with an agent of that task, and run() is called once; every
\* agent invocation calls the success or the fail tool of an assigned task and
\* the task is terminal afterwards.
CreateSessionOrchestrator ==
    \E r \in Existing, a \in Agents \cup {DefaultAgent} :
        /\ depends_on[r] = {}
        /\ a \in Range(get_agents(r))
        /\ Orchestrator_init(<<r>>, a)

\* run_turn(), lines 113-115, for an agent that marks a task terminal
AgentMarksTerminal ==
    /\ pc = "invoke"
    /\ pc' = "events"
    /\ calls' = calls + 1
    /\ invoking' = invoking + 1
    /\ to_yield' \in 0..MaxEvents
    /\ \E t \in Range(get_tasks("assigned").tasks) :
          /\ \/ \E raw \in RawResults : succeed(t, raw)
             \/ \E reason \in Reasons : fail(t, reason)
          /\ status'[t] \in COMPLETE_STATUSES
    /\ UNCHANGED <<orch_tasks, orch_agent, flow_agent, controller, legacy_tasks, controller_run, emitted, turn_exit>>
    /\ UNCHANGED <<loop_exc, exc, end_turn, end_session, next_agent>>
    /\ UNCHANGED handlerVars

NextSession ==
    \/ ConstructInOrder
    \/ CreateSessionOrchestrator
    \/ Run_Start
    \/ LoopCheck
    \/ BeginTurn
    \/ TurnCheck
    \/ AgentMarksTerminal
    \/ HandleStepEvent
    \/ StepDone
    \/ AfterStep
    \/ Advance
    \/ Except
    \/ Finally

\* run() is one thread of control: it goes on as long as it has a next step
SpecSession == InitViews /\ [][NextSession]_vars /\ WF_vars(NextSession)

\* ---- SpecLegacy: Tasks of control_flow.core.task are made, a legacy Controller
\* is constructed over some of them, run_async() is called once, and the agents
\* it runs, like the program around it, complete and fail tasks.
NLegacyTasks == 2
COMPLETED == "COMPLETED"
\* completed_at is None
NoTime == 0

\* Task(objective=...): the defaults of the fields
NewLegacyTask ==
    [status |-> PENDING, result |-> None, error |-> None, completed_at |-> NoTime]

LegacyTasks == 1..Len(legacy_tasks)
LegacyResults == {None, "A"}
LegacyMessages == {None, "m"}

\* the readings datetime.datetime.now() can give: not before an earlier one
LegacyClock ==
    {now \in 1..MaxTime : \A t \in LegacyTasks : legacy_tasks[t].completed_at <= now}

\* Task.complete(result), at the reading now of the clock
LegacyTask_complete(t, r, now) ==
    legacy_tasks' = [legacy_tasks EXCEPT ![t] =
                        [@ EXCEPT !.result = r, !.status = COMPLETED,
                                  !.completed_at = now]]

\* Task.fail(message), at the reading now of the clock
LegacyTask_fail(t, message, now) ==
    legacy_tasks' = [legacy_tasks EXCEPT ![t] =
                        [@ EXCEPT !.error = message, !.status = FAILED,
                                  !.completed_at = now]]

\* the variables of the Orchestrator, which the legacy classes do not touch
orchestratorVars == <<pc, orch_tasks, orch_agent, flow_agent, emitted, loop_exc, exc,
                      end_turn, end_session, next_agent, calls,
                      last_event, delivered, persisted, to_yield, invoking, turn_exit>>

\* the condition of run_async's while loop
any_pending ==
    \E i \in DOMAIN controller.tasks :
        legacy_tasks[controller.tasks[i]].status = PENDING

\* what self.delegation_strategy(agents) can return: one of the agents, or
\* nothing
delegation_strategy(ags) == Range(ags) \cup {None}

\* the agent selection of run_async as it would be if it asked the delegation
\* strategy whatever the number of agents
select_agent_always_delegating ==
    [delegated |-> TRUE, choices |-> delegation_strategy(controller.agents)]

\* the agent selection of run_async: whether the delegation strategy is asked,
\* and the agents that can come out
select_agent ==
    IF Len(controller.agents) > 1
    THEN [delegated |-> TRUE, choices |-> delegation_strategy(controller.agents)]
    ELSE [delegated |-> FALSE, choices |-> {controller.agents[1]}]

\* what a caller passes as the Controller's agents
LegacyAgentsArgs ==
    {[is_none |-> FALSE, list |-> l] : l \in {<<>>, <<"a1">>, <<"a1", "a2">>}}

\* the task lists a Controller is constructed with
LegacyTaskLists ==
    {s \in UNION {[1..n -> LegacyTasks] : n \in 0..NLegacyTasks} :
        \A i \in DOMAIN s, j \in DOMAIN s : s[i] = s[j] => i = j}

ConstructLegacyTask ==
    /\ controller_run.pc = "none"
    /\ ~controller.made
    /\ Len(legacy_tasks) < NLegacyTasks
    /\ legacy_tasks' = Append(legacy_tasks, NewLegacyTask)
    /\ err' = NoError
    /\ UNCHANGED <<controller, controller_run>>
    /\ UNCHANGED orchestratorVars
    /\ UNCHANGED taskVars

CreateLegacyController ==
    /\ pc = "none"
    /\ controller_run.pc = "none"
    /\ ~controller.made
    /\ \E v \in LegacyAgentsArgs, ts \in LegacyTaskLists : Controller_init(v, ts)

\* a call of Task.complete, by the program or by the agent that is running
LegacyComplete ==
    /\ controller_run.pc \in {"none", "run"}
    /\ \E t \in LegacyTasks, r \in LegacyResults, now \in LegacyClock :
          LegacyTask_complete(t, r, now)
    /\ err' = NoError
    /\ UNCHANGED <<controller, controller_run>>
    /\ UNCHANGED orchestratorVars
    /\ UNCHANGED taskVars

\* a call of Task.fail, by the program or by the agent that is running
LegacyFail ==
    /\ controller_run.pc \in {"none", "run"}
    /\ \E t \in LegacyTasks, message \in LegacyMessages, now \in LegacyClock :
          LegacyTask_fail(t, message, now)
    /\ err' = NoError
    /\ UNCHANGED <<controller, controller_run>>
    /\ UNCHANGED orchestratorVars
    /\ UNCHANGED taskVars

\* controller.run_async() is called
RunAsync_Start ==
    /\ controller.made
    /\ controller_run.pc = "none"
    /\ controller_run' = [controller_run EXCEPT !.pc = "loop"]
    /\ err' = NoError
    /\ UNCHANGED <<controller, legacy_tasks>>
    /\ UNCHANGED orchestratorVars
    /\ UNCHANGED taskVars

\* run_async, lines 72-79: the test of the while loop, the selection of the
\* agent and the return if there is none
RunAsync_Loop ==
    /\ controller_run.pc = "loop"
    /\ IF any_pending
       THEN \E a \in select_agent.choices :
               controller_run' =
                   IF a = None
                   THEN [pc |-> "returned", agent |-> None,
                         delegated |-> controller_run.delegated \/ select_agent.delegated,
                         exit |-> "no_agent"]
                   ELSE [pc |-> "run", agent |-> a,
                         delegated |-> controller_run.delegated \/ select_agent.delegated,
                         exit |-> None]
       ELSE controller_run' = [controller_run EXCEPT !.pc = "returned",
                                                     !.exit = "no_pending"]
    /\ UNCHANGED <<controller, legacy_tasks, err>>
    /\ UNCHANGED orchestratorVars
    /\ UNCHANGED taskVars

\* run_async, lines 81-83: the run of the agent ends
RunAgent_End ==
    /\ controller_run.pc = "run"
    /\ controller_run' = [controller_run EXCEPT !.pc = "loop"]
    /\ UNCHANGED <<controller, legacy_tasks, err>>
    /\ UNCHANGED orchestratorVars
    /\ UNCHANGED taskVars

NextLegacy ==
    \/ ConstructLegacyTask
    \/ CreateLegacyController
    \/ LegacyComplete
    \/ LegacyFail
    \/ RunAsync_Start
    \/ RunAsync_Loop
    \/ RunAgent_End

SpecLegacy == InitViews /\ [][NextLegacy]_vars

\* ------------------------------------------------------------------ claims
Upstreams(t) == depends_on[t] \cup subtasks[t]

\* A call mark_successful(t, raw) with the default validate_upstreams is one step.
MarkSuccessfulCall(t, raw) == mark_successful(t, raw, TRUE)

\* C1: in every reachable state and for every task t, is_ready(t) holds exactly
\* when t is PENDING or RUNNING and every member of t.depends_on is SUCCESSFUL,
\* FAILED or SKIPPED; parent, subtasks, downstreams and result play no part.
C1_Readiness ==
    \A t \in Tasks :
        is_ready(t) <=>
            /\ status[t] \in {"PENDING", "RUNNING"}
            /\ \A d \in depends_on[t] : status[d] \in {"SUCCESSFUL", "FAILED", "SKIPPED"}

\* C1's case: a task that is ready although one of its dependencies has failed.
C1_Witness ==
    \E t \in Tasks :
        /\ \E d \in depends_on[t] : status[d] = FAILED
        /\ is_ready(t)

\* C2 (as stated): mark_successful(t, result) raises and leaves status and result
\* as they were whenever a dependency or subtask of t is PENDING or RUNNING, and
\* whenever all of them are complete the call succeeds and t is SUCCESSFUL.
C2_Original ==
    [][\A t \in Tasks, raw \in RawResults :
          MarkSuccessfulCall(t, raw) =>
              IF \E u \in Upstreams(t) : status[u] \in {PENDING, RUNNING}
              THEN err' # NoError /\ status' = status /\ result' = result
              ELSE err' = NoError /\ status'[t] = SUCCESSFUL]_vars

\* C2 (amended): as C2, but with all upstreams complete the call succeeds only if
\* validate_result accepts the result; if it rejects it, the call raises and
\* leaves status and result as they were.
C2_UpstreamInvariant ==
    [][\A t \in Tasks, raw \in RawResults :
          MarkSuccessfulCall(t, raw) =>
              IF \E u \in Upstreams(t) : status[u] \in {PENDING, RUNNING}
              THEN err' \in {UpstreamError, SubtaskError}
                   /\ status' = status /\ result' = result
              ELSE IF validate_result(t, raw).err = NoError
              THEN err' = NoError /\ status'[t] = SUCCESSFUL
              ELSE err' # NoError /\ status' = status /\ result' = result]_vars

\* C2's case: mark_successful has just been refused, and a parent with two
\* subtasks, one PENDING and one SUCCESSFUL, is still incomplete.
C2_Witness ==
    /\ err = UpstreamError
    /\ \E t \in Tasks : \E c, d \in subtasks[t] :
          /\ t \notin {c, d}
          /\ status[c] = PENDING
          /\ status[d] = SUCCESSFUL
          /\ status[t] \in INCOMPLETE_STATUSES

\* C3 (as stated): once a task's status is SUCCESSFUL, FAILED or SKIPPED, no call
\* changes it.
C3_TerminalImmutability ==
    [][\A t \in Tasks : status[t] \in COMPLETE_STATUSES => status'[t] = status[t]]_vars

\* C4 (as stated): in every reachable state, every SUCCESSFUL task has all members
\* of its depends_on and all of its subtasks in a complete status.
C4_Original ==
    \A t \in Tasks :
        status[t] = SUCCESSFUL => \A u \in Upstreams(t) : status[u] \in COMPLETE_STATUSES

\* C4 (amended): a step that makes a task SUCCESSFUL ends in a state where every
\* member of its depends_on and every subtask of it is complete; later calls of
\* add_dependency, add_subtask or mark_running may undo that.
C4_SuccessfulOnlyWithCompleteUpstreams ==
    [][\A t \in Tasks :
          (status[t] # SUCCESSFUL /\ status'[t] = SUCCESSFUL) =>
              \A u \in depends_on'[t] \cup subtasks'[t] :
                  status'[u] \in COMPLETE_STATUSES]_vars

\* C4's case: a task that is SUCCESSFUL with a dependency that completed first.
C4_Witness ==
    /\ err = NoError
    /\ \E t \in Tasks :
          /\ status[t] = SUCCESSFUL
          /\ \E u \in Upstreams(t) : u # t /\ status[u] \in COMPLETE_STATUSES

\* the tasks reachable from the orchestrator's roots through subtask edges
RECURSIVE SubtaskClosure(_)
SubtaskClosure(S) ==
    LET n == S \cup UNION {subtasks[t] : t \in S}
    IN IF n = S THEN S ELSE SubtaskClosure(n)

Reachable == SubtaskClosure(Range(orch_tasks))

RECURSIVE AncestorsOf(_)
AncestorsOf(t) ==
    IF parent[t] = NoTask THEN {} ELSE {parent[t]} \cup AncestorsOf(parent[t])

Occurrences(list, t) == Cardinality({i \in DOMAIN list : list[i] = t})

\* C7 (as stated): in every state get_tasks("active") is exactly the set of tasks
\* reachable from the roots through subtask edges for which is_ready holds.
C7_ActiveExact ==
    pc # "none" =>
        /\ get_tasks("active").err = NoError
        /\ Range(get_tasks("active").tasks) = {t \in Reachable : is_ready(t)}

\* C8: in every state get_tasks("assigned") holds exactly the members of
\* get_tasks("active") whose resolved agent list contains the orchestrator's
\* current agent, and assigned is within active, which is within all.
C8_AssignedWithinActive ==
    pc # "none" =>
        LET active == get_tasks("active").tasks
            assigned == get_tasks("assigned").tasks
            all == get_tasks("all").tasks
        IN  /\ Range(assigned) =
                  {t \in Range(active) : orch_agent \in Range(get_agents(t))}
            /\ \A t \in Range(assigned) : Occurrences(assigned, t) = Occurrences(active, t)
            /\ Range(active) \subseteq Range(all)

\* C8's case: two active tasks, one of them assigned to the current agent.
C8_Witness ==
    /\ pc = "ready"
    /\ Len(get_tasks("active").tasks) = 2
    /\ Len(get_tasks("assigned").tasks) = 1

\* C9 (as stated): get_tasks("all") holds every task object reachable from the
\* roots and every ancestor of a root, and each distinct task object is in each
\* view exactly once (active and assigned: each such object that belongs there).
C9_EveryObjectOnce ==
    pc # "none" =>
        LET active == get_tasks("active").tasks
            assigned == get_tasks("assigned").tasks
            all == get_tasks("all").tasks
        IN  /\ \A t \in Reachable \cup UNION {AncestorsOf(r) : r \in Range(orch_tasks)} :
                  Occurrences(all, t) = 1
            /\ \A t \in Tasks : Occurrences(all, t) <= 1
            /\ \A t \in Tasks : Occurrences(active, t) <= 1
            /\ \A t \in Tasks : Occurrences(assigned, t) <= 1

run_ended == pc \in {"returned", "raised"}

CountOf(list, x) == Cardinality({i \in DOMAIN list : list[i] = x})

\* C5 (as stated): every call of run() that emitted the start event emits
\* exactly one end event, the last event of the call; when the loop raised,
\* exactly one error event precedes the end event and the loop's exception
\* leaves run().
C5_Original ==
    (run_ended /\ CountOf(emitted, OrchestratorStart) > 0) =>
        /\ CountOf(emitted, OrchestratorEnd) = 1
        /\ emitted[Len(emitted)] = OrchestratorEnd
        /\ loop_exc # None =>
              /\ CountOf(emitted, OrchestratorError) = 1
              /\ emitted[Len(emitted) - 1] = OrchestratorError
              /\ exc = loop_exc
              /\ pc = "raised"

\* C5 (amended): a call of run() whose start event was handled without a handler
\* raising emits exactly one end event, the last event of the call, whether the
\* loop finished or raised; when the loop raised an Exception, exactly one error
\* event is emitted, just before the end event, and when it raised an exception
\* that is not an Exception (KeyboardInterrupt), no error event is emitted; the
\* loop's exception leaves run() unless a handler of the error or end event
\* raised, and then the handler's exception leaves run().
C5_SessionEndAlwaysEmitted ==
    (run_ended /\ CountOf(emitted, OrchestratorStart) > 0) =>
        \/ /\ emitted = <<OrchestratorStart>>
           /\ exc = HandlerError
           /\ loop_exc = None
           /\ pc = "raised"
        \/ /\ emitted = IF loop_exc = AnException
                        THEN <<OrchestratorStart, OrchestratorError, OrchestratorEnd>>
                        ELSE <<OrchestratorStart, OrchestratorEnd>>
           /\ exc \in {loop_exc, HandlerError}
           /\ pc = "returned" <=> exc = None

\* C5's case: the loop raised an Exception, the error event and the end event
\* were emitted and the exception left run().
C5_Witness ==
    /\ pc = "raised"
    /\ loop_exc = AnException
    /\ exc = AnException
    /\ emitted = <<OrchestratorStart, OrchestratorError, OrchestratorEnd>>

\* C6: run() starts a turn only in a state where the active view is not empty
\* and should_end_session() is false, and when run() returns the active view
\* is empty or should_end_session() is true.
C6_LoopCondition ==
    /\ pc = "begin_turn" =>
          get_tasks("active").tasks # <<>> /\ ~should_end_session
    /\ pc = "returned" =>
          get_tasks("active").tasks = <<>> \/ should_end_session

\* C6's case: run() returned because the turn strategy ended the session, with a
\* task still active.
C6_Witness ==
    /\ pc = "returned"
    /\ should_end_session
    /\ get_tasks("active").tasks # <<>>

\* C10 (as stated): after an agent step, run_turn() goes on to invoke the
\* current agent again only if some active task lists that agent as eligible.
C10_StopsWhenAgentUnavailable ==
    [][(pc = "after_step" /\ pc' = "turn_loop") =>
          \E t \in Range(get_tasks("active").tasks) :
              orch_agent \in Range(get_agents(t))]_vars

\* C11: strict step ordering.  At most one agent invocation is in progress in
\* any state, and when an invocation begins, no invocation is in progress, the
\* one before has no event left to yield, and the last event it yielded was
\* passed to every handler and then persisted if its persist flag was set.
C11_StrictStepOrdering ==
    /\ invoking \in {0, 1}
    /\ pc = "invoke" =>
          /\ invoking = 0
          /\ to_yield = 0
          /\ last_event.event = AgentEvent =>
                /\ delivered = Handlers
                /\ persisted = last_event.persist

\* C11's case: a second invocation of the turn is about to begin, after the
\* events of the first were handled.
C11_Witness ==
    /\ pc = "invoke"
    /\ calls >= 1
    /\ last_event.event = AgentEvent
    /\ delivered = Handlers

C13_LimitsEndCleanly ==
    [][\A t \in Tasks, c \in Limits, m \in Limits :
          Task_run(t, c, m) => (exc' = None /\ pc' = "returned")]_vars

\* C14: for the event last given to handle_event, the handlers received it once
\* each in registration order, up to and including the first handler that raised
\* and no handler after it; it was added to the flow's events exactly when its
\* persist flag is set and no handler raised; and a handler raising on an event
\* of an agent invocation ended the turn with that exception.
C14_HandlersThenPersistence ==
    last_event.event # None =>
        /\ delivered = SubSeq(Handlers, 1,
                              IF last_event.raiser = 0 THEN NHandlers
                              ELSE last_event.raiser)
        /\ persisted <=> (last_event.persist /\ last_event.raiser = 0)
        /\ (last_event.event = AgentEvent /\ last_event.raiser # 0) =>
              /\ pc = "except"
              /\ loop_exc = AnException
              /\ invoking = 0

\* C14's case: the first handler raised on an agent's event whose persist flag
\* is set.
C14_Witness ==
    /\ last_event = [event |-> AgentEvent, persist |-> TRUE, raiser |-> 1]
    /\ delivered = <<1>>
    /\ ~persisted
    /\ pc = "except"

\* C15: a task's parent, once set, never changes; add_subtask(p, c) when c has a
\* parent other than p raises and leaves c.parent, p's subtasks and p.depends_on
\* (and every other field) as they were; when c has no parent, p becomes its
\* parent, and when c's parent is p the call is accepted; in both accepted cases
\* c is then a subtask and a dependency of p.
C15_ParentSetOnce ==
    [][/\ \A c \in Tasks : parent[c] # NoTask => parent'[c] = parent[c]
       /\ \A p \in Tasks, c \in Tasks :
             add_subtask(p, c) =>
                 IF parent[c] \notin {NoTask, p}
                 THEN /\ err' = ParentError
                      /\ parent' = parent
                      /\ subtasks' = subtasks
                      /\ depends_on' = depends_on
                 ELSE /\ err' = NoError
                      /\ parent'[c] = p
                      /\ c \in subtasks'[p]
                      /\ c \in depends_on'[p]]_vars

\* C15's case: add_subtask has just been refused for a task that has a parent,
\* with a third task as the would-be parent.
C15_Witness ==
    /\ err = ParentError
    /\ \E p \in Tasks, c \in Tasks :
          /\ parent[c] \notin {NoTask, p, c}
          /\ p # c
          /\ c \notin subtasks[p]

\* C16: over any sequence of task constructions and add_subtask calls, for every
\* task p and every c in p's subtasks, c.parent is p and c is a member of
\* p.depends_on, so p is not ready while c is incomplete.
C16_SubtaskIsDependency ==
    \A p \in Existing :
        \A c \in subtasks[p] :
            /\ parent[c] = p
            /\ c \in depends_on[p]
            /\ is_ready(p) => is_complete(c)

\* C16's case: a task constructed before p has been made p's subtask by
\* add_subtask, is incomplete, and p is pending.
C16_Witness ==
    \E p \in Existing, c \in Existing :
        /\ c < p
        /\ c \in subtasks[p]
        /\ is_incomplete(c)
        /\ status[p] = PENDING
        /\ ~is_ready(p)

\* C17: add_dependency(a, b) adds b to a.depends_on and a to b's downstreams,
\* and changes no status, no parent, no subtask set, and no depends_on or
\* downstream set of any other task.
C17_AddDependencyFrame ==
    [][\A a \in Tasks, b \in Tasks :
          add_dependency(a, b) =>
              /\ depends_on'[a] = depends_on[a] \cup {b}
              /\ downstreams'[b] = downstreams[b] \cup {a}
              /\ \A t \in Tasks \ {a} : depends_on'[t] = depends_on[t]
              /\ \A t \in Tasks \ {b} : downstreams'[t] = downstreams[t]
              /\ status' = status
              /\ subtasks' = subtasks
              /\ parent' = parent
              /\ err' = NoError]_vars

\* C17's case: b has been made a dependency of another task a, and is not a
\* subtask of a.
C17_Witness ==
    \E a \in Tasks, b \in Tasks :
        /\ a # b
        /\ b \in depends_on[a]
        /\ a \in downstreams[b]
        /\ b \notin subtasks[a]
        /\ parent[b] = NoTask
        /\ err = NoError

\* C18: mark_failed(t, reason) and mark_skipped(t) on an incomplete task t never
\* raise and leave t.status equal to FAILED, respectively SKIPPED, whatever the
\* statuses of t's dependencies and subtasks.
C18_FailedSkippedUnconditional ==
    [][\A t \in Tasks :
          is_incomplete(t) =>
              /\ \A reason \in Reasons :
                    mark_failed(t, reason) =>
                        (err' = NoError /\ status'[t] = FAILED)
              /\ mark_skipped(t) => (err' = NoError /\ status'[t] = SKIPPED)]_vars

\* C18's case: a task is FAILED while one of its dependencies is incomplete,
\* and a task is SKIPPED while one of its subtasks is incomplete.
C18_Witness ==
    /\ err = NoError
    /\ \E f \in Tasks : /\ status[f] = FAILED
                        /\ \E d \in depends_on[f] : is_incomplete(d)
    /\ \E k \in Tasks : /\ status[k] = SKIPPED
                        /\ \E c \in subtasks[k] : is_incomplete(c)

\* C19 (as stated): a task that has a FAILED task in its depends_on is not
\* ready.
C19_FailureBlocksDependents ==
    \A t \in Tasks :
        (\E d \in depends_on[t] : status[d] = FAILED) => ~is_ready(t)

\* C20 (as stated): a task's result is written only by the call that moves the
\* task from an incomplete status into a terminal one, and is never overwritten
\* afterwards.
C20_ResultWrittenOnce ==
    [][\A t \in Tasks :
          result'[t] # result[t] =>
              /\ status[t] \in INCOMPLETE_STATUSES
              /\ status'[t] \in COMPLETE_STATUSES]_vars

\* the indexes of the option tuple, as the values a tool call passes
ValidIndex(raw) == raw \in IntValues /\ IntOf(raw) \in 0..(Len(OptionTuple) - 1)

EmptyAgentList == [is_none |-> FALSE, list |-> <<>>]

\* C22: configuration errors are raised at once and change nothing: get_tasks
\* with a filter other than "active", "assigned" and "all" raises the
\* invalid-filter error whatever the task graph is; constructing a Task with
\* agents=[] raises and no task is made or linked; constructing a legacy
\* Controller with an empty agent list raises and no Controller is made.
C22_ConfigurationErrors ==
    [][/\ \A filter \in FilterArgs \ {"active", "assigned", "all"} :
             get_tasks_call(filter) =>
                 /\ err' = InvalidFilterError
                 /\ UNCHANGED <<taskVars, orchVars>>
       /\ \A p \in Existing \cup {NoTask} :
             Task_new(p, {}, "o1", 1, EmptyAgentList) =>
                 /\ err' = AgentsError
                 /\ UNCHANGED taskVars
       /\ \A ts \in ControllerTaskLists :
             Controller_init(EmptyAgentList, ts) =>
                 /\ err' = ControllerAgentsError
                 /\ controller' = controller
                 /\ UNCHANGED taskVars]_vars

\* C22's case: the construction of a task with agents=[] and an existing task
\* as its parent has just been refused.
C22_Witness ==
    /\ err = AgentsError
    /\ ntasks >= 1
    /\ ntasks < NTasks
    /\ \A t \in Tasks : subtasks[t] = {} /\ depends_on[t] = {}
    /\ ~controller.made
    /\ pc = "none"

\* a task and its ancestors that have an agent list of their own
WithOwnAgents(t) == {a \in {t} \cup AncestorsOf(t) : agents[a] # <<>>}

\* C23: get_agents(t) is the task's own agent list if it has one; otherwise the
\* list of the nearest ancestor that has one; otherwise the flow's agent alone
\* if the current flow has one; otherwise the process-wide default agent alone.
\* It is never empty.
C23_AgentResolutionOrder ==
    \A t \in Existing :
        /\ Len(get_agents(t)) > 0
        /\ agents[t] # <<>> => get_agents(t) = agents[t]
        /\ (agents[t] = <<>> /\ parent[t] # NoTask) =>
               get_agents(t) = get_agents(parent[t])
        /\ WithOwnAgents(t) # {} =>
               \E a \in WithOwnAgents(t) :
                   /\ \A b \in WithOwnAgents(t) \ {a} : b \in AncestorsOf(a)
                   /\ get_agents(t) = agents[a]
        /\ (WithOwnAgents(t) = {} /\ flow_agent # None) =>
               get_agents(t) = <<flow_agent>>
        /\ (WithOwnAgents(t) = {} /\ flow_agent = None) =>
               get_agents(t) = <<DefaultAgent>>

\* C23's case: inside a flow that has an agent, a task without agents whose
\* parent has none either resolves to the agent list of its grandparent, and a
\* task without agents and without a parent resolves to the flow's agent.
C23_Witness ==
    /\ flow_agent # None
    /\ \E t \in Existing :
          /\ agents[t] = <<>>
          /\ parent[t] # NoTask
          /\ agents[parent[t]] = <<>>
          /\ parent[parent[t]] # NoTask
          /\ agents[parent[parent[t]]] # <<>>
          /\ agents[parent[parent[t]]] # <<flow_agent>>
          /\ get_agents(t) = agents[parent[parent[t]]]

\* the session has begun: run() has handled the start event without a handler
\* raising
SessionBegun ==
    /\ pc \notin {"none", "ready"}
    /\ ~(pc = "raised" /\ last_event.event = OrchestratorStart)

\* C24: with a single root task without dependencies and an agent that marks it
\* terminal when invoked, run() ends; during the session the root's status
\* changes only once, from an incomplete status to a terminal one; and when
\* run() has ended the root is terminal and get_tasks("active") is empty.
C24_SingleTaskSession ==
    /\ (pc = "ready") ~> run_ended
    /\ [][\A r \in Range(orch_tasks) :
             (SessionBegun /\ status'[r] # status[r]) =>
                 /\ status[r] \in INCOMPLETE_STATUSES
                 /\ status'[r] \in COMPLETE_STATUSES]_vars
    /\ []((run_ended /\ SessionBegun) =>
             /\ \A r \in Range(orch_tasks) : status[r] \in COMPLETE_STATUSES
             /\ get_tasks("active") = [err |-> NoError, tasks |-> <<>>])

\* C24's case: run() has returned after one agent invocation, which made the
\* root SUCCESSFUL.
C24_Witness ==
    /\ pc = "returned"
    /\ calls = 1
    /\ Len(orch_tasks) = 1
    /\ status[orch_tasks[1]] = SUCCESSFUL
    /\ emitted = <<OrchestratorStart, OrchestratorEnd>>

\* C25 (as stated): whenever run() has returned normally and should_end_session()
\* is false, every root task and every task reachable from the roots has a
\* terminal status.
C25_ReturnsOnlyWhenAllComplete ==
    (pc = "returned" /\ ~should_end_session) =>
        \A t \in Range(orch_tasks) \cup Reachable : is_complete(t)

\* C26 (as stated): two tasks have the same id exactly when their objective,
\* instructions, result type, prompt and context are the same, whatever their
\* name, agents, parent, depends_on and status are.
C26_IdDeterminism ==
    \A a \in Existing, b \in Existing :
        id[a] = id[b] <=>
            /\ objective[a] = objective[b]
            /\ instructions[a] = instructions[b]
            /\ result_type[a] = result_type[b]
            /\ prompt[a] = prompt[b]
            /\ context[a] = context[b]

\* the upstream checks of mark_successful(t, ., validate_upstreams) pass
UpstreamChecksPass(t, validate_upstreams) ==
    validate_upstreams =>
        /\ \A d \in depends_on[t] : ~is_incomplete(d)
        /\ \A s \in subtasks[t] : ~is_incomplete(s)

\* C27: mark_successful is atomic with respect to result validation: a call
\* whose raw result validate_result rejects (result_type None and a non-null
\* result, not a member of the option tuple, coercion failure, the custom
\* validator raising) raises, that very error when the upstream checks pass,
\* and leaves every task's status and stored result as they were.
C27_ValidationAtomic ==
    [][\A t \in Existing, raw \in AnyValues :
          validate_result(t, raw).err # NoError =>
              \A validate_upstreams \in BOOLEAN :
                  mark_successful(t, raw, validate_upstreams) =>
                      /\ err' # NoError
                      /\ UpstreamChecksPass(t, validate_upstreams) =>
                             err' = validate_result(t, raw).err
                      /\ status' = status
                      /\ result' = result]_vars

\* C27's case: the only task with a validator that rejects holds a stored result
\* from an earlier success, and a later mark_successful of it has just been
\* rejected by that validator.
C27_Witness ==
    /\ err = ValidatorError
    /\ \E t \in Existing :
          /\ result_validator[t] = ValidatorRejectsZ
          /\ \A u \in Existing \ {t} : result_validator[u] = NoValidator
          /\ status[t] = SUCCESSFUL
          /\ result[t] = "A"

\* C28: calling the success tool of a task that is SUCCESSFUL already raises the
\* already-successful error and leaves every status and stored result as it
\* was, so a second success call never replaces the first result.
C28_SecondSuccessRejected ==
    [][\A t \in Existing :
          is_successful(t) =>
              \A raw \in AnyValues :
                  succeed(t, raw) =>
                      /\ err' = AlreadySuccessfulError
                      /\ status' = status
                      /\ result' = result]_vars

\* C28's case: the success tool has just been refused on the only SUCCESSFUL
\* task, which keeps its first result.
C28_Witness ==
    /\ err = AlreadySuccessfulError
    /\ \E t \in Existing :
          /\ status[t] = SUCCESSFUL
          /\ result[t] = "A"
          /\ \A u \in Existing \ {t} : status[u] # SUCCESSFUL

\* the agents of the model that are eligible for a task of the list
EligibleFor(tasks) ==
    {a \in Agents \cup {DefaultAgent} :
        \E t \in Range(tasks) : AgentIn(a, get_agents(t))}

\* the agents eligible for some active task
EligibleForActive == EligibleFor(get_tasks("active").tasks)

TopLevelEntries(h, t) ==
    Cardinality({i \in h.hierarchy : h.task_dict_map[i].task = t})

\* the number of child entries that hold task t under the dict of key i
ChildEntries(h, i, t) ==
    LET children == h.task_dict_map[i].children
    IN Cardinality({k \in DOMAIN children : h.task_dict_map[children[k]].task = t})

\* C30 (as stated): get_task_hierarchy() does not fail on a missing parent and
\* holds every task of get_tasks("all") exactly once: a task without parent as
\* one top-level entry and nowhere as a child, a task with a parent as one child
\* entry under the dict of its parent and nowhere else; also when two tasks have
\* the same id.
C30_HierarchyRepresentsAll ==
    (pc = "ready" /\ get_tasks("all").err = NoError) =>
        LET all == get_tasks("all").tasks
            h == get_task_hierarchy
        IN  /\ h.err = NoError
            /\ \A t \in Range(all) :
                   IF parent[t] = NoTask
                   THEN /\ TopLevelEntries(h, t) = 1
                        /\ \A i \in DOMAIN h.task_dict_map : ChildEntries(h, i, t) = 0
                   ELSE /\ TopLevelEntries(h, t) = 0
                        /\ \E i \in DOMAIN h.task_dict_map :
                               h.task_dict_map[i].task = parent[t]
                        /\ \A i \in DOMAIN h.task_dict_map :
                               ChildEntries(h, i, t) =
                                   IF h.task_dict_map[i].task = parent[t] THEN 1 ELSE 0

\* C31 (as stated): downstreams mirror the dependency edges: in every state
\* reached by constructing tasks and by add_dependency and add_subtask, for all
\* tasks a and b, b is in a.depends_on exactly when a is in b's downstreams; the
\* dependency of a parent on each of its subtasks included.
C31_DownstreamsMirror ==
    \A a \in Existing, b \in Existing :
        b \in depends_on[a] <=> a \in downstreams[b]

\* C32: run_async keeps selecting an agent and running it while one of the
\* Controller's tasks is PENDING, and returns only when none is PENDING or the
\* delegation strategy gave no agent; with exactly one agent the strategy is
\* never asked and agents[0] is the agent run in every iteration. Task.complete
\* and Task.fail are the only operations that take a task out of PENDING, and
\* each sets completed_at.
C32_LegacyRunLoop ==
    /\ [](controller_run.pc = "returned" =>
             \/ ~any_pending /\ controller_run.exit = "no_pending"
             \/ /\ controller_run.exit = "no_agent"
                /\ controller_run.delegated
                /\ Len(controller.agents) > 1)
    /\ [][(controller_run.pc = "loop" /\ controller_run'.pc # "loop") =>
             IF any_pending
             THEN \/ controller_run'.pc = "run" /\ controller_run'.agent # None
                  \/ controller_run'.exit = "no_agent"
             ELSE controller_run'.pc = "returned"]_vars
    /\ []((controller.made /\ Len(controller.agents) = 1) =>
             /\ ~controller_run.delegated
             /\ controller_run.exit # "no_agent"
             /\ controller_run.pc = "run" => controller_run.agent = controller.agents[1])
    /\ [][\A t \in LegacyTasks :
             (legacy_tasks[t].status = PENDING /\ legacy_tasks'[t].status # PENDING) =>
                 /\ \/ \E r \in LegacyResults, now \in 1..MaxTime :
                          LegacyTask_complete(t, r, now)
                    \/ \E message \in LegacyMessages, now \in 1..MaxTime :
                          LegacyTask_fail(t, message, now)
                 /\ legacy_tasks'[t].completed_at # NoTime]_vars

\* C32's case: a Controller with one agent and two tasks has run that agent,
\* which completed one task and failed the other, and run_async has returned.
C32_Witness ==
    /\ controller_run.pc = "returned"
    /\ controller_run.exit = "no_pending"
    /\ controller_run.agent = "a1"
    /\ controller.agents = <<"a1">>
    /\ Len(controller.tasks) = 2
    /\ \E t \in LegacyTasks, u \in LegacyTasks :
          /\ legacy_tasks[t].status = COMPLETED /\ legacy_tasks[t].completed_at # NoTime
          /\ legacy_tasks[u].status = FAILED /\ legacy_tasks[u].completed_at # NoTime

====
